---- MODULE Spec2Model ----
(***************************************************************************)
(* Model of the differential-privacy query servers of DP-Tsel-Project:     *)
(*   - src/app.py    : PrivacyEngine + the Flask handler handle_query       *)
(*   - src/server.py : DataServer (process_query and the socket loop start) *)
(* Real numbers (epsilon) are kept in tenths: 4.0 is 40, 0.2 is 2.          *)
(***************************************************************************)
EXTENDS Integers, Sequences, FiniteSets, TLC

\* ------------------------------------------------------------------ bounds
MaxRows == 2      \* rows of the CSV file
NoiseMax == 1     \* a noise draw lies in -NoiseMax..NoiseMax
NThreads == 2     \* concurrent Flask request threads

\* ------------------------------------------------------------- JSON values
\* A JSON/Python scalar as it reaches the code: absent, a number (tenths) or
\* a string.
Absent == [k |-> "absent", v |-> 0]
Num(n) == [k |-> "num", v |-> n]
Str == [k |-> "str", v |-> 0]
Bool(b) == [k |-> "bool", v |-> IF b THEN 1 ELSE 0]

\* Python truthiness of a value that is present.
Truthy(x) ==
    CASE x.k = "bool" -> x.v = 1
      [] x.k = "num" -> x.v # 0
      [] x.k = "str" -> TRUE
      [] OTHER -> FALSE

\* dict.get(field, default)
Get(x, default) == IF x.k = "absent" THEN default ELSE x

\* ------------------------------------------------------------ the CSV file
Keys == <<"k1", "k2">>
KeySet == {Keys[i] : i \in 1..Len(Keys)}

\* A row: na is the set of columns whose cell is empty (NaN after read_csv).
Row(rev, region, category, year, month, na) ==
    [rev |-> rev, region |-> region, category |-> category, year |-> year,
     month |-> month, los |-> "l1", channel |-> "c1", na |-> na]

RowPool ==
    { Row(10, "k1", "k1", 2020, 9, {}),
      Row(30, "k2", "k2", 2022, 12, {}),
      Row(0, "k1", "k1", 2020, 9, {"rev"}) }

RowSeqs == UNION {[1..n -> RowPool] : n \in 0..MaxRows}

\* What is wrong with the file (defect), if anything ("none"):
\*   missing : read_csv raises (no such file)
\*   nocol   : the channel_new column is not in the file (dropna raises KeyError)
\*   baddate : a cell of act_date does not parse (to_datetime raises)
\*   badrev  : a cell of total_rev is not a number (min() or max() raises)

Complete(row) == row.na = {}

\* The files the servers are started on: every sound file of up to MaxRows
\* rows, and for each defect the one-row files that show it.
Files ==
    {[defect |-> "missing", rows |-> <<>>]}
    \cup {[defect |-> "none", rows |-> rs] : rs \in RowSeqs}
    \cup {[defect |-> "nocol", rows |-> <<r>>] : r \in RowPool}
    \cup {[defect |-> d, rows |-> <<r>>] : d \in {"baddate", "badrev"},
                                          r \in {x \in RowPool : Complete(x)}}

\* ------------------------------------------------------------- DataFrames
\* A pandas DataFrame: its rows, whether act_date holds datetimes (dt) and
\* whether total_rev is a numeric column (num); None is isnone.
None == [isnone |-> TRUE, rows |-> <<>>, dt |-> FALSE, num |-> FALSE]
Frame(rows, dt, num) == [isnone |-> FALSE, rows |-> rows, dt |-> dt, num |-> num]

\* A bound attribute of the engine: unset (the attribute was never assigned),
\* nan (min of an empty column) or a number.
Unset == [k |-> "unset", v |-> 0]
NaN == [k |-> "nan", v |-> 0]

\* dropna(subset=[the six columns], inplace=True)
dropna(rows) == SelectSeq(rows, Complete)

RevSet(rows) == {rows[i].rev : i \in 1..Len(rows)}
Min(S) == CHOOSE x \in S : \A y \in S : x <= y
Max(S) == CHOOSE x \in S : \A y \in S : x >= y

\* float(column.min()) / float(column.max()) on a numeric column
lower_bound(rows) == IF rows = <<>> THEN NaN ELSE Num(Min(RevSet(rows)))
upper_bound(rows) == IF rows = <<>> THEN NaN ELSE Num(Max(RevSet(rows)))

\* The step of __init__ at which the file makes it raise ("none": it does not).
FailedStep(file) ==
    CASE file.defect = "missing" -> "read"
      [] file.defect = "nocol" -> "dropna"
      [] file.defect = "baddate" -> "date"
      [] file.defect = "badrev" -> "bounds"
      [] OTHER -> "none"

\* What __init__ has assigned to self when it leaves the try block, normally
\* or by the exception of step FailedStep(file).
Loaded(file) ==
    LET step == FailedStep(file)
        read == Frame(file.rows, FALSE, file.defect # "badrev")
        cleaned == [read EXCEPT !.rows = dropna(file.rows)]
        dated == [cleaned EXCEPT !.dt = TRUE]
    IN CASE step = "read" -> [raw_data |-> None, lower |-> Unset, upper |-> Unset]
         [] step = "dropna" -> [raw_data |-> read, lower |-> Unset, upper |-> Unset]
         [] step = "date" -> [raw_data |-> cleaned, lower |-> Unset, upper |-> Unset]
         [] step = "bounds" -> [raw_data |-> dated, lower |-> Unset, upper |-> Unset]
         [] OTHER -> [raw_data |-> dated, lower |-> lower_bound(dated.rows),
                      upper |-> upper_bound(dated.rows)]

\* PrivacyEngine.__init__ (app.py): the except branch only prints, so
\* _raw_data keeps whatever the try block had assigned.
PrivacyEngine_init(file) ==
    LET s == Loaded(file)
    IN [raw_data |-> s.raw_data, lower |-> s.lower, upper |-> s.upper,
        failed |-> FailedStep(file)]

\* DataServer.__init__ (server.py): the except branch sets _raw_data = None.
DataServer_init(file) ==
    LET s == Loaded(file)
    IN [raw_data |-> IF FailedStep(file) = "none" THEN s.raw_data ELSE None,
        lower |-> s.lower, upper |-> s.upper, failed |-> FailedStep(file)]

\* ------------------------------------------------------------- mechanisms
\* One invocation of a pydp mechanism, with the arguments it was given.
Call(mech, epsilon, lower, upper, key, data, noise) ==
    [mech |-> mech, epsilon |-> epsilon, lower |-> lower, upper |-> upper,
     key |-> key, data |-> data, noise |-> noise]

\* pydp accepts only a positive number as epsilon and raises otherwise.
ValidEpsilon(epsilon) == epsilon.k = "num" /\ epsilon.v > 0

Clamp(x, lo, hi) == IF x < lo THEN lo ELSE IF x > hi THEN hi ELSE x

RECURSIVE ClampedSum(_, _, _)
ClampedSum(data, lo, hi) ==
    IF data = <<>> THEN 0
    ELSE Clamp(Head(data), lo, hi) + ClampedSum(Tail(data), lo, hi)

\* BoundedSum(epsilon, lower_bound, upper_bound, dtype='float').quick_result(data):
\* the clamped sum plus one noise draw.
BoundedSum(epsilon, lower, upper, data, noise) ==
    IF ~ValidEpsilon(epsilon) \/ lower.k # "num" \/ upper.k # "num"
    THEN [raised |-> TRUE, value |-> 0]
    ELSE [raised |-> FALSE, value |-> ClampedSum(data, lower.v, upper.v) + noise]

\* Count(epsilon, dtype='int').quick_result(data): the length plus one noise draw.
Count(epsilon, data, noise) ==
    IF ~ValidEpsilon(epsilon)
    THEN [raised |-> TRUE, value |-> 0]
    ELSE [raised |-> FALSE, value |-> Len(data) + noise]

\* The outcome of a call: raised, or a value; calls are the mechanism
\* invocations it made.
Raise(calls) == [raised |-> TRUE, value |-> 0, calls |-> calls]
Return(value, calls) == [raised |-> FALSE, value |-> value, calls |-> calls]

\* _get_private_sum(self, data, epsilon). Reading self._lower_bound raises
\* AttributeError when __init__ never assigned it.
get_private_sum(self, key, data, epsilon, noise) ==
    IF data = <<>> THEN Return(0, {})
    ELSE IF self.lower.k = "unset" \/ self.upper.k = "unset" THEN Raise({})
    ELSE LET r == BoundedSum(epsilon, self.lower, self.upper, data, noise)
             c == {Call("sum", epsilon, self.lower, self.upper, key, data, noise)}
         IN IF r.raised THEN Raise(c) ELSE Return(r.value, c)

\* _get_private_count that returns max(0, result): a negative output becomes 0.
get_private_count_clamped(self, key, data, epsilon, noise) ==
    LET r == Count(epsilon, data, noise)
        c == {Call("count", epsilon, Unset, Unset, key, data, noise)}
    IN IF r.raised THEN Raise(c)
       ELSE Return(IF r.value < 0 THEN 0 ELSE r.value, c)

\* _get_private_count(self, data, epsilon)
get_private_count(self, key, data, epsilon, noise) ==
    LET r == Count(epsilon, data, noise)
        c == {Call("count", epsilon, Unset, Unset, key, data, noise)}
    IN IF r.raised THEN Raise(c) ELSE Return(r.value, c)

\* ------------------------------------------------------------- aggregation
\* A result value: a mapping from group key to number, or a scalar.
EmptyMap == [k \in {} |-> 0]
MapVal(m) == [kind |-> "map", map |-> m, scalar |-> 0]
ScalarVal(n) == [kind |-> "scalar", map |-> EmptyMap, scalar |-> n]

\* The outcome of a method of the engine: raised or a result value, the
\* mechanism invocations made, and the engine as the method leaves it.
Raised(calls, self) ==
    [raised |-> TRUE, result |-> ScalarVal(0), calls |-> calls, self |-> self]
Returned(result, calls, self) ==
    [raised |-> FALSE, result |-> result, calls |-> calls, self |-> self]

KeyIndex(key) == CHOOSE i \in 1..Len(Keys) : Keys[i] = key

RECURSIVE SumRev(_)
\* Series.sum(): empty cells are skipped.
SumRev(rows) ==
    IF rows = <<>> THEN 0
    ELSE (IF "rev" \in Head(rows).na THEN 0 ELSE Head(rows).rev) + SumRev(Tail(rows))

\* groupby(col): the groups' keys (rows with an empty key cell are left out)
\* and each group's rows, in file order.
GroupKeys(rows, col) == {rows[i][col] : i \in {j \in 1..Len(rows) : col \notin rows[j].na}}
Group(rows, col, key) == SelectSeq(rows, LAMBDA r : col \notin r.na /\ r[col] = key)

\* revenues.tolist(): an empty cell is an element of the list too (nan, held
\* here as the row's placeholder 0; such a row exists only while the bounds
\* are unset, so it is never summed by a mechanism).
RevList(rows) == [i \in 1..Len(rows) |-> rows[i].rev]

Ones(n) == [i \in 1..n |-> 1]

\* A dict comprehension {key: f(key) for key in sorted keys}: per(key) is the
\* outcome of f; the first key that raises ends it.
Comprehension(keys, per, self) ==
    LET bad == {k \in keys : per[k].raised}
        first == CHOOSE k \in bad : \A o \in bad : KeyIndex(k) <= KeyIndex(o)
        done == IF bad = {} THEN keys
                ELSE {k \in keys : KeyIndex(k) <= KeyIndex(first)}
        calls == UNION {per[k].calls : k \in done}
    IN IF bad # {} THEN Raised(calls, self)
       ELSE Returned(MapVal([k \in keys |-> per[k].value]), calls, self)

\* get_revenue_by_region with the use_dp test lost: the noised branch always.
get_revenue_by_region_always_dp(self, use_dp, epsilon, noise) ==
    LET rows == self.raw_data.rows
        keys == GroupKeys(rows, "region")
    IN Comprehension(keys,
           [k \in keys |-> get_private_sum(self, k, RevList(Group(rows, "region", k)),
                                           epsilon, noise[k])],
           self)

\* PrivacyEngine.get_revenue_by_region(use_dp, epsilon)
get_revenue_by_region(self, use_dp, epsilon, noise) ==
    LET rows == self.raw_data.rows
        keys == GroupKeys(rows, "region")
    IN IF Truthy(use_dp)
       THEN Comprehension(keys,
                [k \in keys |-> get_private_sum(self, k, RevList(Group(rows, "region", k)),
                                                epsilon, noise[k])],
                self)
       ELSE IF ~self.raw_data.num /\ keys # {} THEN Raised({}, self)
       ELSE Returned(MapVal([k \in keys |-> SumRev(Group(rows, "region", k))]), {}, self)

\* PrivacyEngine.get_count_by_category(use_dp, epsilon)
get_count_by_category(self, use_dp, epsilon, noise) ==
    LET rows == self.raw_data.rows
        keys == GroupKeys(rows, "category")
        size == [k \in keys |-> Len(Group(rows, "category", k))]
    IN IF Truthy(use_dp)
       THEN Comprehension(keys,
                [k \in keys |-> get_private_count(self, k, Ones(size[k]), epsilon, noise[k])],
                self)
       ELSE Returned(MapVal(size), {}, self)

\* The fingerprint filter: None (a key the params lack) equals no cell.
Matches(row, params) ==
    /\ params.present
    /\ row.year = params.year /\ row.month = params.month
    /\ "los" \notin row.na /\ row.los = params.los
    /\ "channel" \notin row.na /\ row.channel = params.channel

\* get_count_by_fingerprint that assigns the filtered frame to self._raw_data
\* instead of the local filtered_df.
get_count_by_fingerprint_inplace(self, use_dp, epsilon, params, noise) ==
    IF ~self.raw_data.dt THEN Raised({}, self)
    ELSE LET kept == SelectSeq(self.raw_data.rows, LAMBDA r : Matches(r, params))
             after == [self EXCEPT !.raw_data.rows = kept]
             r == get_private_count(self, "scalar", Ones(Len(kept)), epsilon, noise["scalar"])
         IN IF Truthy(use_dp)
            THEN (IF r.raised THEN Raised(r.calls, after)
                  ELSE Returned(ScalarVal(r.value), r.calls, after))
            ELSE Returned(ScalarVal(Len(kept)), {}, after)

\* PrivacyEngine.get_count_by_fingerprint(use_dp, epsilon, params). The .dt
\* accessor raises AttributeError on a column that holds no datetimes.
get_count_by_fingerprint(self, use_dp, epsilon, params, noise) ==
    IF ~self.raw_data.dt THEN Raised({}, self)
    ELSE LET count == Len(SelectSeq(self.raw_data.rows, LAMBDA r : Matches(r, params)))
             r == get_private_count(self, "scalar", Ones(count), epsilon, noise["scalar"])
         IN IF Truthy(use_dp)
            THEN (IF r.raised THEN Raised(r.calls, self)
                  ELSE Returned(ScalarVal(r.value), r.calls, self))
            ELSE Returned(ScalarVal(count), {}, self)

\* ---------------------------------------------------------------- queries
Types ==
    {"revenue_by_region", "count_by_category", "count_by_fingerprint",
     "total_revenue", "nonexistent", "None"}
Supported == {"revenue_by_region", "count_by_category", "count_by_fingerprint"}

NoParams == [present |-> FALSE, year |-> 0, month |-> 0, los |-> "", channel |-> ""]
Fingerprint == [present |-> TRUE, year |-> 2020, month |-> 9, los |-> "l1", channel |-> "c1"]

UseDpVals == {Absent, Bool(TRUE), Bool(FALSE)}
EpsilonVals == {Absent, Num(0), Num(-5), Num(1), Str}
RemoveVals == {Absent, Num(0)}

\* The decoded JSON body of a request; type "None" is a body without a type.
Queries ==
    {q \in [type : Types, use_dp : UseDpVals, epsilon : EpsilonVals,
            params : {NoParams, Fingerprint}, remove : RemoveVals] :
        /\ q.params.present => q.type = "count_by_fingerprint"
        /\ q.remove # Absent => q.type = "total_revenue"}

\* ------------------------------------------------------------- responses
NoValue == ScalarVal(0)
Result(code, value) == [kind |-> "result", code |-> code, error |-> "", value |-> value]
Error(code, msg) == [kind |-> "error", code |-> code, error |-> msg, value |-> NoValue]
NoResponse == [kind |-> "none", code |-> 0, error |-> "", value |-> NoValue]

\* The outcome of a request handler: the response, the mechanism invocations,
\* the steps taken in order, and the engine as the handler leaves it.
Outcome(raised, response, calls, steps, self) ==
    [raised |-> raised, response |-> response, calls |-> calls, steps |-> steps,
     self |-> self]

\* -------------------------------------------------- app.py: handle_query
\* SERVER_EPSILON_POLICY (tenths)
SERVER_EPSILON_POLICY ==
    [t \in Supported |->
        CASE t = "revenue_by_region" -> 40
          [] t = "count_by_category" -> 25
          [] OTHER -> 2]

\* SERVER_EPSILON_POLICY.get(query_type, 1.0)
PolicyGet(policy, query_type) ==
    IF query_type \in DOMAIN policy THEN Num(policy[query_type]) ELSE Num(10)

\* The if/elif chain of handle_query on query_type.
Dispatch(self, query_type, use_dp, epsilon, params, noise) ==
    CASE query_type = "revenue_by_region" -> get_revenue_by_region(self, use_dp, epsilon, noise)
      [] query_type = "count_by_category" -> get_count_by_category(self, use_dp, epsilon, noise)
      [] OTHER -> get_count_by_fingerprint(self, use_dp, epsilon, params, noise)

\* handle_query(), lines 84-94: the data check and the reading of the
\* request, up to the epsilon the server resolves.
handle_query_head(self, policy, data) ==
    [unavailable |-> self.raw_data.isnone, epsilon |-> PolicyGet(policy, data.type)]

\* handle_query_tail whose last elif is an else: no type is rejected.
handle_query_tail_else(self, data, epsilon, noise) ==
    LET r == Dispatch(self, data.type, Get(data.use_dp, Bool(FALSE)), epsilon,
                      data.params, noise)
        pre == <<"check_data", "resolve_epsilon">>
    IN IF r.raised
       THEN Outcome(TRUE, Error(500, "Internal Server Error"), r.calls,
                    pre \o <<"dispatch">>, r.self)
       ELSE Outcome(FALSE, Result(200, r.result), r.calls,
                    pre \o <<"dispatch", "wrap">>, r.self)

\* handle_query that checks the type before anything is looked up in the
\* policy and looks the epsilon up only for a use_dp query.
handle_query_tail_type_first(self, data, epsilon, noise) ==
    LET query_type == data.type
        use_dp == Get(data.use_dp, Bool(FALSE))
        r == Dispatch(self, query_type, use_dp, epsilon, data.params, noise)
        pre == IF Truthy(use_dp) THEN <<"check_data", "check_type", "resolve_epsilon">>
               ELSE <<"check_data", "check_type">>
    IN IF query_type \notin Supported
       THEN Outcome(FALSE, Error(400, "Unsupported query type."), {},
                    <<"check_data", "reject_type">>, self)
       ELSE IF r.raised
       THEN Outcome(TRUE, Error(500, "Internal Server Error"), r.calls,
                    pre \o <<"dispatch">>, r.self)
       ELSE Outcome(FALSE, Result(200, r.result), r.calls,
                    pre \o <<"dispatch", "wrap">>, r.self)

\* handle_query with data.get("use_dp", True): protection on unless declined.
handle_query_tail_default_on(self, data, epsilon, noise) ==
    LET query_type == data.type
        use_dp == Get(data.use_dp, Bool(TRUE))
        r == Dispatch(self, query_type, use_dp, epsilon, data.params, noise)
        pre == <<"check_data", "resolve_epsilon">>
    IN IF query_type \notin Supported
       THEN Outcome(FALSE, Error(400, "Unsupported query type."), {},
                    pre \o <<"reject_type">>, self)
       ELSE IF r.raised
       THEN Outcome(TRUE, Error(500, "Internal Server Error"), r.calls,
                    pre \o <<"dispatch">>, r.self)
       ELSE Outcome(FALSE, Result(200, r.result), r.calls,
                    pre \o <<"dispatch", "wrap">>, r.self)

\* handle_query(), lines 98-107: the dispatch and the response. An exception
\* that leaves the view function is answered by Flask with 500.
handle_query_tail(self, data, epsilon, noise) ==
    LET query_type == data.type
        use_dp == Get(data.use_dp, Bool(FALSE))
        r == Dispatch(self, query_type, use_dp, epsilon, data.params, noise)
        pre == <<"check_data", "resolve_epsilon">>
    IN IF query_type \notin Supported
       THEN Outcome(FALSE, Error(400, "Unsupported query type."), {},
                    pre \o <<"reject_type">>, self)
       ELSE IF r.raised
       THEN Outcome(TRUE, Error(500, "Internal Server Error"), r.calls,
                    pre \o <<"dispatch">>, r.self)
       ELSE Outcome(FALSE, Result(200, r.result), r.calls,
                    pre \o <<"dispatch", "wrap">>, r.self)

Unavailable(code, self) ==
    Outcome(FALSE, Error(code, "Server data not loaded."), {}, <<"check_data">>, self)

\* handle_query without its data check.
handle_query_unchecked(self, policy, data, noise) ==
    handle_query_tail(self, data, handle_query_head(self, policy, data).epsilon, noise)

\* handle_query() from start to end.
handle_query(self, policy, data, noise) ==
    LET h == handle_query_head(self, policy, data)
    IN IF h.unavailable THEN Unavailable(500, self)
       ELSE handle_query_tail(self, data, h.epsilon, noise)

\* ----------------------------------------------- server.py: process_query
\* DataServer.process_query(query): epsilon is query.get("epsilon", 0.5).
\* The three branches repeat the bodies of PrivacyEngine's methods.
process_query(self, query, noise) ==
    IF self.raw_data.isnone THEN Unavailable(0, self)
    ELSE LET query_type == query.type
             use_dp == Get(query.use_dp, Bool(FALSE))
             epsilon == Get(query.epsilon, Num(5))
             r == Dispatch(self, query_type, use_dp, epsilon, query.params, noise)
             pre == <<"check_data", "client_epsilon">>
         IN IF query_type \notin Supported
            THEN Outcome(FALSE, Error(0, "Unsupported query type."), {},
                         pre \o <<"reject_type">>, self)
            ELSE IF r.raised
            THEN Outcome(TRUE, NoResponse, r.calls, pre \o <<"dispatch">>, r.self)
            ELSE Outcome(FALSE, Result(0, r.result), r.calls,
                         pre \o <<"dispatch", "wrap">>, r.self)

\* ------------------------------------------------------------------ state
VARIABLES
    csv,        \* the file BBA_Cleaned.csv as the servers find it at startup
    app,        \* app.py: the module's privacy_engine
    policy,     \* app.py: the module's SERVER_EPSILON_POLICY
    srv,        \* server.py: the DataServer object
    srv_pc,     \* server.py: where start() is
    wire,       \* the request being answered and what the server did for it
    ref,        \* an exact result a client has kept from an earlier request
    threads,    \* app.py: the request threads inside handle_query
    unit        \* a direct call of _get_private_sum and what it returned

vars == <<csv, app, policy, srv, srv_pc, wire, ref, threads, unit>>

NoQuery ==
    [type |-> "None", use_dp |-> Absent, epsilon |-> Absent, params |-> NoParams,
     remove |-> Absent]

\* payload: "query" (a JSON object), "empty" (the client sent nothing) or
\* "garbage" (bytes that are no JSON).
Exchange(server, payload, query, o) ==
    [server |-> server, payload |-> payload, query |-> query, raised |-> o.raised,
     response |-> o.response, calls |-> o.calls, steps |-> o.steps]

NoOutcome == [raised |-> FALSE, response |-> NoResponse, calls |-> {}, steps |-> <<>>]
Idle == Exchange("none", "none", NoQuery, NoOutcome)

NoRef == [server |-> "none", type |-> "None", params |-> NoParams, value |-> NoValue]

ThreadIdle == [pc |-> "idle", data |-> NoQuery, epsilon |-> Absent]

NoUnit == [called |-> FALSE, data |-> <<>>, epsilon |-> Absent, noise |-> 0,
           out |-> Return(0, {})]

\* The noise the library would draw while a request is served: one value
\* per group key for a grouped query, one for a fingerprint count, each in
\* -NoiseMax..NoiseMax. Whether the code uses a draw is the code's matter.
NoiseSlots == KeySet \cup {"scalar"}
DrawSlots(query) ==
    CASE query.type \in {"revenue_by_region", "count_by_category"} -> KeySet
      [] query.type = "count_by_fingerprint" -> {"scalar"}
      [] OTHER -> {}
Draws(query) ==
    {[s \in NoiseSlots |-> IF s \in DrawSlots(query) THEN f[s] ELSE 0] :
        f \in [DrawSlots(query) -> (-NoiseMax)..NoiseMax]}

Init ==
    /\ csv \in Files
    /\ app = PrivacyEngine_init(csv)
    /\ policy = SERVER_EPSILON_POLICY
    /\ srv = DataServer_init(csv)
    /\ srv_pc = "constructed"
    /\ wire = Idle
    /\ ref = NoRef
    /\ threads = [t \in 1..NThreads |-> ThreadIdle]
    /\ unit = NoUnit

\* ---------------------------------------------------------------- actions
\* app.py: one request served by handle_query from start to end.
HttpRequest(query, noise) ==
    /\ wire = Idle
    /\ LET o == handle_query(app, policy, query, noise)
       IN /\ app' = o.self
          /\ wire' = Exchange("http", "query", query, o)
    /\ UNCHANGED <<csv, policy, srv, srv_pc, ref, threads, unit>>

\* server.py: start() up to its first accept().
SrvStart ==
    /\ srv_pc = "constructed"
    /\ srv_pc' = IF srv.raw_data.isnone THEN "returned" ELSE "listening"
    /\ UNCHANGED <<csv, app, policy, srv, wire, ref, threads, unit>>

\* server.py: one turn of start()'s loop for a connection that carries a
\* query. An exception of process_query leaves start(): the process ends
\* without a response.
SocketRequest(query, noise) ==
    /\ srv_pc = "listening"
    /\ wire = Idle
    /\ LET o == process_query(srv, query, noise)
       IN /\ srv' = o.self
          /\ srv_pc' = IF o.raised THEN "crashed" ELSE "listening"
          /\ wire' = Exchange("socket", "query", query, o)
    /\ UNCHANGED <<csv, app, policy, ref, threads, unit>>

\* server.py: a connection on which recv returns b'': break leaves the loop.
SocketEmpty ==
    /\ srv_pc = "listening"
    /\ wire = Idle
    /\ srv_pc' = "returned"
    /\ wire' = Exchange("socket", "empty", NoQuery, NoOutcome)
    /\ UNCHANGED <<csv, app, policy, srv, ref, threads, unit>>

\* server.py: json.loads raises on bytes that are no JSON.
SocketGarbage ==
    /\ srv_pc = "listening"
    /\ wire = Idle
    /\ srv_pc' = "crashed"
    /\ wire' = Exchange("socket", "garbage", NoQuery, [NoOutcome EXCEPT !.raised = TRUE])
    /\ UNCHANGED <<csv, app, policy, srv, ref, threads, unit>>

\* The exact (use_dp false) queries with a supported type.
IsExact(query) ==
    query.type \in Supported /\ ~Truthy(Get(query.use_dp, Bool(FALSE)))

\* The client has read the response (or seen the connection close); the
\* exchange is over.
Deliver ==
    /\ wire # Idle
    /\ wire' = Idle
    /\ UNCHANGED <<csv, app, policy, srv, srv_pc, ref, threads, unit>>

\* As Deliver, for an exact result that the client keeps to compare later
\* results with.
DeliverAndKeep ==
    /\ wire # Idle
    /\ IsExact(wire.query) /\ wire.response.kind = "result"
    /\ wire' = Idle
    /\ ref' = [server |-> wire.server, type |-> wire.query.type,
               params |-> wire.query.params, value |-> wire.response.value]
    /\ UNCHANGED <<csv, app, policy, srv, srv_pc, threads, unit>>

Next ==
    \/ \E q \in Queries : \E n \in Draws(q) : HttpRequest(q, n)
    \/ SrvStart
    \/ \E q \in Queries : \E n \in Draws(q) : SocketRequest(q, n)
    \/ SocketEmpty
    \/ SocketGarbage
    \/ Deliver

Spec == Init /\ [][Next]_vars

\* ------------------------------------------------- concurrent HTTP requests
\* Flask serves each request in a thread of its own. A thread is between
\* requests (idle), inside handle_query after line 94 (running, holding its
\* locals) or past its return statement (responded).
ThreadQueries ==
    {q \in Queries : q.epsilon = Num(1) /\ q.use_dp # Absent /\ q.remove = Absent}

ThreadResponded == [ThreadIdle EXCEPT !.pc = "responded"]

ThreadReceive(t, query) ==
    /\ threads[t].pc = "idle"
    /\ LET h == handle_query_head(app, policy, query)
       IN threads' = [threads EXCEPT ![t] =
                        IF h.unavailable THEN ThreadResponded
                        ELSE [pc |-> "running", data |-> query, epsilon |-> h.epsilon]]
    /\ UNCHANGED <<csv, app, policy, srv, srv_pc, wire, ref, unit>>

ThreadFinish(t, noise) ==
    /\ threads[t].pc = "running"
    /\ LET o == handle_query_tail(app, threads[t].data, threads[t].epsilon, noise)
       IN app' = o.self
    /\ threads' = [threads EXCEPT ![t] = ThreadResponded]
    /\ UNCHANGED <<csv, policy, srv, srv_pc, wire, ref, unit>>

ThreadReturn(t) ==
    /\ threads[t].pc = "responded"
    /\ threads' = [threads EXCEPT ![t] = ThreadIdle]
    /\ UNCHANGED <<csv, app, policy, srv, srv_pc, wire, ref, unit>>

NextThreads ==
    \/ \E t \in 1..NThreads : \E q \in ThreadQueries : ThreadReceive(t, q)
    \/ \E t \in 1..NThreads : \E n \in Draws(threads[t].data) : ThreadFinish(t, n)
    \/ \E t \in 1..NThreads : ThreadReturn(t)

SpecThreads == Init /\ [][NextThreads]_vars

\* ------------------------------------------- _get_private_sum on its own
\* The method applied to any list of values, epsilon and noise draw, on the
\* engine app.py has constructed.
UnitValues == {5, 20}
UnitData == UNION {[1..n -> UnitValues] : n \in 0..MaxRows}

CallPrivateSum(data, epsilon, noise) ==
    /\ unit' = [called |-> TRUE, data |-> data, epsilon |-> epsilon, noise |-> noise,
                out |-> get_private_sum(app, "scalar", data, epsilon, noise)]
    /\ UNCHANGED <<csv, app, policy, srv, srv_pc, wire, ref, threads>>

NextSum ==
    \E data \in UnitData : \E epsilon \in {Num(0), Num(2), Num(40)} :
        \E noise \in (-NoiseMax)..NoiseMax : CallPrivateSum(data, epsilon, noise)

SpecSum == Init /\ [][NextSum]_vars

\* The same program with a client that keeps exact results.
NextRepeat == Next \/ DeliverAndKeep

SpecRepeat == Init /\ [][NextRepeat]_vars

\* ================================================================ claims
Engine(server) == IF server = "http" THEN app ELSE srv

\* The exchange on the wire is a request that carried a query.
Answered == wire.server # "none" /\ wire.payload = "query"

UsesDp(query) == Truthy(Get(query.use_dp, Bool(FALSE)))

\* C1: the epsilon every mechanism invocation receives is the server's policy
\* value for the query's type, whatever epsilon the request carried.
C1_ClientEpsilonNeverForwarded ==
    Answered =>
        \A c \in wire.calls : c.epsilon = PolicyGet(SERVER_EPSILON_POLICY, wire.query.type)

\* C2: every mechanism invocation receives a positive number as epsilon.
C2_MechanismEpsilonPositive ==
    Answered => \A c \in wire.calls : ValidEpsilon(c.epsilon)

\* C3: while the engine holds no dataset every query is answered with
\* 'Server data not loaded.' after the data check alone, with no mechanism
\* invoked, and an engine without a dataset never gets one.
C3_Unavailable ==
    (Answered /\ Engine(wire.server).raw_data.isnone) =>
        /\ wire.response.kind = "error"
        /\ wire.response.error = "Server data not loaded."
        /\ wire.calls = {}
        /\ wire.steps = <<"check_data">>

C3_StaysUnavailable ==
    /\ app.raw_data.isnone => app'.raw_data.isnone
    /\ srv.raw_data.isnone => srv'.raw_data.isnone

\* C3: every query on an engine without a dataset is refused unserved
\* (C3_Unavailable), in every state of every run (C3_StaysUnavailable).
C3_UnavailableDataset == []C3_Unavailable /\ [][C3_StaysUnavailable]_vars

C3_Witness ==
    /\ Answered /\ Engine(wire.server).raw_data.isnone
    /\ wire.query.type = "revenue_by_region" /\ UsesDp(wire.query)

\* C4: with a dataset loaded, a query whose type is not supported (or is
\* absent) is answered with 'Unsupported query type.', never with a result;
\* no mechanism is invoked and the step changes nothing of the servers.
C4_Rejected ==
    (Answered /\ ~Engine(wire.server).raw_data.isnone /\ wire.query.type \notin Supported) =>
        /\ wire.response.kind = "error"
        /\ wire.response.error = "Unsupported query type."
        /\ wire.calls = {}

C4_NoEffect ==
    (wire = Idle /\ wire'.payload = "query" /\ wire'.query.type \notin Supported) =>
        /\ app' = app /\ srv' = srv /\ policy' = policy /\ srv_pc' = srv_pc
        /\ ref' = ref /\ csv' = csv

\* C4: an unsupported type is rejected (C4_Rejected) and the step that
\* rejects it changes nothing (C4_NoEffect).
C4_UnsupportedType == []C4_Rejected /\ [][C4_NoEffect]_vars

C4_Witness ==
    /\ Answered /\ wire.server = "socket" /\ ~srv.raw_data.isnone
    /\ wire.query.type = "None" /\ UsesDp(wire.query)
    /\ wire.response.error = "Unsupported query type."

\* C5: _get_private_sum on an empty list, with a positive epsilon and bounds
\* lower < upper, invokes the sum mechanism once and returns 0 plus its noise.
C5_EmptySumIsNoised ==
    ( /\ unit.called /\ unit.data = <<>> /\ ValidEpsilon(unit.epsilon)
      /\ app.lower.k = "num" /\ app.upper.k = "num" /\ app.lower.v < app.upper.v ) =>
        /\ ~unit.out.raised
        /\ Cardinality(unit.out.calls) = 1
        /\ unit.out.value = 0 + unit.noise

\* C6: an exact query of a supported type returns the result an earlier
\* evaluation of the same query on the same server returned, whatever was
\* served in between.
SameExactQuery ==
    /\ Answered /\ IsExact(wire.query)
    /\ ref.server = wire.server /\ ref.type = wire.query.type
    /\ ref.params = wire.query.params

C6_ExactReproducible ==
    SameExactQuery => (wire.response.kind = "result" /\ wire.response.value = ref.value)

C6_Witness ==
    /\ SameExactQuery /\ wire.query.type = "revenue_by_region"
    /\ DOMAIN ref.value.map = KeySet
    /\ wire.response.kind = "result"

\* C7: no step of any request thread changes the dataset, the bounds or the
\* policy table, and a thread that is between requests holds nothing of the
\* request it served.
C7_SharedStateFrame ==
    app' = app /\ policy' = policy /\ csv' = csv

C7_NothingRetained ==
    \A t \in 1..NThreads : threads[t].pc # "running" =>
        (threads[t].data = NoQuery /\ threads[t].epsilon = Absent)

\* C7: the shared state is never written (C7_SharedStateFrame) and no thread
\* keeps request data after its request (C7_NothingRetained).
C7_ReadOnlySharedState == []C7_NothingRetained /\ [][C7_SharedStateFrame]_vars

C7_Witness ==
    /\ ~app.raw_data.isnone /\ app.raw_data.rows # <<>>
    /\ threads[1].pc = "responded"
    /\ threads[2].pc = "running" /\ threads[2].data.type = "count_by_fingerprint"
    /\ threads[2].data.params.present

\* The revenue total of a frame, and of the frame without row index i
\* (0-based; an index that is out of range removes nothing).
TotalRevenue(rows) == SumRev(rows)
Removed(rows, remove) ==
    IF remove.k = "num" /\ remove.v >= 0 /\ remove.v < Len(rows)
    THEN rows[remove.v + 1].rev ELSE 0

\* C8: with a dataset loaded, an exact total_revenue query returns the
\* dataset's revenue total less the revenue of the removed record, so the
\* full total minus the total without record i is record i's revenue.
C8_Differencing ==
    ( /\ Answered /\ wire.query.type = "total_revenue" /\ ~UsesDp(wire.query)
      /\ Engine(wire.server).failed = "none"
      /\ wire.query.remove.k = "num" =>
            wire.query.remove.v < Len(Engine(wire.server).raw_data.rows) ) =>
        /\ wire.response.kind = "result"
        /\ wire.response.value.kind = "scalar"
        /\ wire.response.value.scalar =
              TotalRevenue(Engine(wire.server).raw_data.rows)
              - Removed(Engine(wire.server).raw_data.rows, wire.query.remove)

\* Ready as the claim means it: every step of startup was done.
FullyLoaded(self) ==
    /\ ~self.raw_data.isnone
    /\ \A i \in 1..Len(self.raw_data.rows) : Complete(self.raw_data.rows[i])
    /\ self.raw_data.dt
    /\ self.lower.k # "unset" /\ self.upper.k # "unset"

\* C9: an engine whose startup failed at any step holds no dataset, and a
\* query reaches an aggregation only on an engine that is fully loaded.
C9_TwoStateStartup ==
    Answered =>
        /\ Engine(wire.server).failed # "none" =>
              ( /\ Engine(wire.server).raw_data.isnone
                /\ wire.response.error = "Server data not loaded." )
        /\ "dispatch" \in {wire.steps[i] : i \in 1..Len(wire.steps)} =>
              FullyLoaded(Engine(wire.server))

\* C10: every invocation of the sum mechanism has bounds lower < upper that
\* enclose every value it is given.
C10_BoundsOrdered ==
    Answered =>
        \A c \in {x \in wire.calls : x.mech = "sum"} :
            /\ c.lower.k = "num" /\ c.upper.k = "num"
            /\ c.lower.v < c.upper.v
            /\ \A i \in 1..Len(c.data) : c.lower.v <= c.data[i] /\ c.data[i] <= c.upper.v

\* The column a grouped query groups by.
GroupColumn(query_type) ==
    IF query_type = "revenue_by_region" THEN "region" ELSE "category"

\* The exchange on the wire is a noised grouped query that got a result.
GroupedDp ==
    /\ Answered
    /\ wire.query.type \in {"revenue_by_region", "count_by_category"}
    /\ UsesDp(wire.query)
    /\ wire.response.kind = "result"

\* What one group hands to its mechanism: its revenues, or one 1 per row.
GroupData(query_type, rows) ==
    IF query_type = "revenue_by_region" THEN RevList(rows) ELSE Ones(Len(rows))

\* The result's keys are the groups' keys, and every key has one mechanism
\* invocation of its own, over that group's records only, whose output is the
\* key's entry.
C11_OneInvocationPerGroup ==
    GroupedDp =>
        LET rows == Engine(wire.server).raw_data.rows
            col == GroupColumn(wire.query.type)
            keys == GroupKeys(rows, col)
        IN /\ wire.response.value.kind = "map"
           /\ DOMAIN wire.response.value.map = keys
           /\ Cardinality(wire.calls) = Cardinality(keys)
           /\ \A k \in keys :
                 \E c \in wire.calls :
                    /\ c.key = k
                    /\ c.data = GroupData(wire.query.type, Group(rows, col, k))
                    /\ wire.response.value.map[k] =
                          (IF c.mech = "sum"
                           THEN ClampedSum(c.data, c.lower.v, c.upper.v)
                           ELSE Len(c.data)) + c.noise

\* C11: a noised revenue_by_region or count_by_category result has one entry
\* per group key of the dataset, each entry comes from a mechanism invocation
\* of its own over that group's records only, and every such invocation
\* receives the whole epsilon the policy fixes for the query's type.
C11_PerGroupFullBudget ==
    /\ C11_OneInvocationPerGroup
    /\ GroupedDp =>
          \A c \in wire.calls :
              c.epsilon = PolicyGet(SERVER_EPSILON_POLICY, wire.query.type)

\* The exchange on the wire is a noised count query that got a result.
CountDp ==
    /\ Answered
    /\ wire.query.type \in {"count_by_category", "count_by_fingerprint"}
    /\ UsesDp(wire.query)
    /\ wire.response.kind = "result"

\* The rows of the dataset that match the fingerprint.
Matching(rows, params) == {i \in 1..Len(rows) : Matches(rows[i], params)}

\* C12: the value a noised count_by_category or count_by_fingerprint query
\* returns is the count mechanism's output, the true count plus the noise
\* drawn, as it is: also when the true count is 0 and when the output is
\* negative.
C12_NoisedCountsUnclamped ==
    CountDp =>
        LET rows == Engine(wire.server).raw_data.rows
        IN IF wire.query.type = "count_by_fingerprint"
           THEN \E c \in wire.calls :
                   /\ wire.calls = {c}
                   /\ c.mech = "count"
                   /\ Len(c.data) = Cardinality(Matching(rows, wire.query.params))
                   /\ wire.response.value.scalar = Len(c.data) + c.noise
           ELSE \A k \in GroupKeys(rows, "category") :
                   \E c \in wire.calls :
                      /\ c.mech = "count" /\ c.key = k
                      /\ Len(c.data) = Len(Group(rows, "category", k))
                      /\ wire.response.value.map[k] = Len(c.data) + c.noise

\* A noised fingerprint count over no matching row came out negative and the
\* response carries it.
C12_Witness ==
    /\ CountDp
    /\ wire.query.type = "count_by_fingerprint"
    /\ Matching(Engine(wire.server).raw_data.rows, wire.query.params) = {}
    /\ wire.response.value.scalar < 0

\* The exchange on the wire is a query put to a server that holds a dataset.
AnsweredReady == Answered /\ ~Engine(wire.server).raw_data.isnone

\* The steps the handler took for the exchange on the wire.
StepsTaken == {wire.steps[i] : i \in 1..Len(wire.steps)}

\* The step that fixes epsilon: a policy lookup in handle_query, a read of the
\* request in process_query.
EpsilonStep(server) == IF server = "http" THEN "resolve_epsilon" ELSE "client_epsilon"

ExactAggregate(rows, query) ==
    CASE query.type = "revenue_by_region" ->
            MapVal([k \in GroupKeys(rows, "region") |-> SumRev(Group(rows, "region", k))])
      [] query.type = "count_by_category" ->
            MapVal([k \in GroupKeys(rows, "category") |->
                       Cardinality({i \in 1..Len(rows) :
                                       "category" \notin rows[i].na
                                       /\ rows[i].category = k})])
      [] OTHER -> ScalarVal(Cardinality(Matching(rows, query.params)))

\* The number of values a result carries.
Entries(value) == IF value.kind = "map" THEN Cardinality(DOMAIN value.map) ELSE 1

\* C14: a supported query whose use_dp is absent or false has no mechanism
\* invoked and, when it is answered with a result, that result is the exact
\* aggregate; a result carries noise, one mechanism invocation per value,
\* exactly when the request's use_dp is truthy.
C14_ProtectionOptIn ==
    (AnsweredReady /\ wire.query.type \in Supported) =>
        /\ ~UsesDp(wire.query) =>
              /\ wire.calls = {}
              /\ wire.response.kind = "result" =>
                    wire.response.value =
                        ExactAggregate(Engine(wire.server).raw_data.rows, wire.query)
        /\ (UsesDp(wire.query) /\ wire.response.kind = "result") =>
              Cardinality(wire.calls) = Entries(wire.response.value)
        /\ wire.calls # {} => Truthy(wire.query.use_dp)

\* A fingerprint query without a use_dp field was answered with the exact
\* count 1 of the one row that matches.
C14_Witness ==
    /\ AnsweredReady
    /\ wire.query.type = "count_by_fingerprint"
    /\ wire.query.use_dp = Absent
    /\ wire.calls = {}
    /\ wire.response.kind = "result"
    /\ wire.response.value = ScalarVal(1)

\* A connection to the socket server has been handled and no exception left
\* start() on it.
SocketServed == wire.server = "socket" /\ ~wire.raised

\* C15: a connection on which the client sent a query has got one response,
\* and after a connection, whether the client sent a query on it or nothing
\* at all, the socket server is accepting the next connection again.
C15_SocketProtocol ==
    SocketServed =>
        /\ wire.payload = "query" => wire.response.kind # "none"
        /\ srv_pc = "listening"

====
